---- MODULE Spec2Model ----
(***************************************************************************)
(* A model of min-go-server: the user CRUD handlers of package api         *)
(* (src/main.go) over one "users" collection, and the process-wide         *)
(* connection singleton of package db (src/db/mongo.go).                   *)
(*                                                                         *)
(* Values keep the type they have in the program: a stored field is a BSON *)
(* value [t, v] (t the BSON type), a field of a decoded bson.M is a Go     *)
(* value [t, v] (t the Go dynamic type the type switches test), a JSON     *)
(* response field is [t, v] with t in "string", "number", "object".        *)
(***************************************************************************)
EXTENDS Integers, Sequences, FiniteSets, TLC

VARIABLES coll, counter, writes, last, before, fresh, deleted,
          clientInstance, clients, handles, calls, panicked, lastConn, succeeded

apiVars  == <<coll, counter, writes, last, before, fresh, deleted>>
connVars == <<clientInstance, clients, handles, calls, panicked, lastConn, succeeded>>
vars     == <<coll, counter, writes, last, before, fresh, deleted,
              clientInstance, clients, handles, calls, panicked, lastConn, succeeded>>

(***************************************************************************)
(* Bounds of the model.                                                    *)
(***************************************************************************)
\* how many write calls (InsertOne, UpdateByID, DeleteOne) the handlers issue before the
\* model stops writing; reads and requests refused with 400 are not counted
MaxWrites == 2
\* how many driver clients mongo.Connect opens before the model stops connecting
MaxClients == 3

(***************************************************************************)
(* Small helpers.                                                          *)
(***************************************************************************)
EmptyMap == <<>>

Has(m, k) == k \in DOMAIN m

Without(m, k) == [x \in DOMAIN m \ {k} |-> m[x]]

\* b's entries laid over a's
Merge(a, b) == [x \in DOMAIN a \cup DOMAIN b |-> IF x \in DOMAIN b THEN b[x] ELSE a[x]]

(***************************************************************************)
(* Texts, numbers and times.                                               *)
(*                                                                         *)
(* A text is either plain (s is its content) or an RFC3339 date-time text, *)
(* which stands for the instant sec (seconds since the epoch) written with *)
(* the zone offset off (minutes; 0 is UTC).  A number is                   *)
(* hi * 2^31 + lo + tenths/10 with 0 <= lo < 2^31, so that the int32 range *)
(* is exactly hi \in {-1, 0}.  A time.Time is zero or an instant in ms.    *)
(***************************************************************************)
Plain(s) == [rfc |-> FALSE, s |-> s, sec |-> 0, off |-> 0]

Rfc(sec, off) == [rfc |-> TRUE, s |-> "", sec |-> sec, off |-> off]

Num(hi, lo, tenths) == [hi |-> hi, lo |-> lo, tenths |-> tenths]

ZeroTime == [zero |-> TRUE, ms |-> 0]

TimeAt(ms) == [zero |-> FALSE, ms |-> ms]

\* time.Parse(time.RFC3339, s): fails on a text that is no RFC3339 date-time
TimeParseOk(text) == text.rfc

TimeParse(text) == TimeAt(text.sec * 1000)

\* t.UTC().Format(time.RFC3339): whole seconds, zone Z
FormatRFC3339UTC(t) == Rfc(t.ms \div 1000, 0)

\* int(v) of a float64 or an int32: the fraction is dropped
ToInt(n) == Num(n.hi, n.lo, 0)

fitsIn32Bits(n) == n.hi \in {-1, 0}

(***************************************************************************)
(* ObjectIDs: 12 bytes, written as 24 hexadecimal characters.  A string    *)
(* of the request path is a sequence of characters.                        *)
(***************************************************************************)
HexDigits == <<"0", "1", "2", "3", "4", "5", "6", "7", "8", "9", "a", "b", "c", "d", "e", "f">>

UpperDigits == <<"0", "1", "2", "3", "4", "5", "6", "7", "8", "9", "A", "B", "C", "D", "E", "F">>

HexChars == {HexDigits[i] : i \in 1..16} \cup {UpperDigits[i] : i \in 1..16}

IsHexChar(c) == c \in HexChars

\* the value of each hexadecimal character
HexValue ==
  [c \in HexChars |-> (CHOOSE i \in 1..16 : HexDigits[i] = c \/ UpperDigits[i] = c) - 1]

HexVal(c) == IF IsHexChar(c) THEN HexValue[c] ELSE 0

NilObjectID == [i \in 1..12 |-> 0]

\* oid.Hex(): lowercase
Hex(oid) ==
  [i \in 1..24 |->
     LET b == oid[(i + 1) \div 2]
     IN  IF i % 2 = 1 THEN HexDigits[(b \div 16) + 1] ELSE HexDigits[(b % 16) + 1]]

\* a variant that checks the length only
ObjectIDFromHexErrLengthOnly(s) == Len(s) # 24

\* primitive.ObjectIDFromHex(s) returns an error unless s is 24 hex characters
ObjectIDFromHexErr(s) == ~(Len(s) = 24 /\ \A i \in 1..24 : IsHexChar(s[i]))

\* the 12 bytes of s; the nil ObjectID when s has not 24 characters
ObjectIDFromHex(s) ==
  IF Len(s) # 24 THEN NilObjectID
  ELSE [i \in 1..12 |-> 16 * HexVal(s[2 * i - 1]) + HexVal(s[2 * i])]

\* the ObjectID the driver generates for the n-th insert of this process
NewObjectID(n) == <<101, 171, 0, 0, 0, 0, 0, 0, 0, 0, 0, n>>

(***************************************************************************)
(* BSON <-> Go.                                                            *)
(***************************************************************************)
\* the Go dynamic type a BSON value has in a decoded bson.M
GoTypeOf(bsonType) ==
  CASE bsonType = "objectId" -> "primitive.ObjectID"
    [] bsonType = "string"   -> "string"
    [] bsonType = "int32"    -> "int32"
    [] bsonType = "int64"    -> "int64"
    [] bsonType = "double"   -> "float64"
    [] bsonType = "date"     -> "primitive.DateTime"
    [] bsonType = "document" -> "primitive.M"

DecodeScalar(b) == [t |-> GoTypeOf(b.t), v |-> b.v]

\* cur.Decode(&raw) / FindOne(...).Decode(&raw) on one field
DecodeValue(b) ==
  IF b.t = "document"
  THEN [t |-> "primitive.M", v |-> [k \in DOMAIN b.v |-> DecodeScalar(b.v[k])]]
  ELSE DecodeScalar(b)

DecodeDoc(doc) == [k \in DOMAIN doc |-> DecodeValue(doc[k])]

\* the BSON value of a field of the update body (a map[string]any from JSON)
EncodeAny(g) ==
  CASE g.t = "string"  -> [t |-> "string", v |-> g.v]
    [] g.t = "float64" -> [t |-> "double", v |-> g.v]

EncodeBody(body) == [k \in DOMAIN body |-> EncodeAny(body[k])]

\* json.Encode of a Go value that the handlers pass through unchanged
ScalarToJSON(g) ==
  IF g.t = "string" THEN [t |-> "string", v |-> g.v] ELSE [t |-> "number", v |-> g.v]

ToJSON(g) ==
  IF g.t \in {"primitive.M", "map[string]interface {}"}
  THEN [t |-> "object", v |-> [k \in DOMAIN g.v |-> ScalarToJSON(g.v[k])]]
  ELSE ScalarToJSON(g)

(***************************************************************************)
(* The User struct and its two codecs (json tags in, bson tags out).       *)
(***************************************************************************)
\* json.Decode(&in) fails on a malformed body and on a field of the wrong JSON type
UserDecodeErr(payload) ==
  \/ ~payload.valid
  \/ \E k \in DOMAIN payload.m :
       LET x == payload.m[k]
       IN  CASE k \in {"name", "email"} -> x.t # "string"
             [] k = "age"               -> x.t # "number" \/ x.v.tenths # 0
             [] k = "created_at"        -> x.t # "string" \/ ~x.v.rfc
             [] k = "id"                -> x.t # "hexstring" \/ ObjectIDFromHexErr(x.v)
             [] OTHER                   -> FALSE

\* the User value json.Decode leaves in `in`: an absent field keeps its zero value
DecodeUser(payload) ==
  LET m == payload.m
  IN  [ID        |-> IF Has(m, "id") THEN ObjectIDFromHex(m["id"].v) ELSE NilObjectID,
       Name      |-> IF Has(m, "name") THEN m["name"].v ELSE Plain(""),
       Email     |-> IF Has(m, "email") THEN m["email"].v ELSE Plain(""),
       Age       |-> IF Has(m, "age") THEN m["age"].v ELSE Num(0, 0, 0),
       CreatedAt |-> IF Has(m, "created_at") THEN TimeParse(m["created_at"].v) ELSE ZeroTime]

\* every field of the struct as the BSON value the driver writes for its Go type
UserFields(u) ==
  [k \in {"_id", "name", "email", "age", "created_at"} |->
     CASE k = "_id"        -> [t |-> "objectId", v |-> u.ID]
       [] k = "name"       -> [t |-> "string", v |-> u.Name]
       [] k = "email"      -> [t |-> "string", v |-> u.Email]
       [] k = "age"        -> [t |-> IF fitsIn32Bits(u.Age) THEN "int32" ELSE "int64", v |-> u.Age]
       [] k = "created_at" -> [t |-> "date", v |-> u.CreatedAt.ms]]

\* the BSON document of a User: `omitempty` drops every field that holds its zero value
EncodeUser(u) ==
  LET all  == UserFields(u)
      keep == {k \in DOMAIN all :
                 CASE k = "_id"        -> u.ID # NilObjectID
                   [] k = "name"       -> u.Name # Plain("")
                   [] k = "email"      -> u.Email # Plain("")
                   [] k = "age"        -> u.Age # Num(0, 0, 0)
                   [] k = "created_at" -> ~u.CreatedAt.zero}
  IN  [k \in keep |-> all[k]]

(***************************************************************************)
(* Normalisation of a decoded document (getUser, and the same lines in     *)
(* listUsers).                                                             *)
(***************************************************************************)
NormalizeCreatedAt(cat) ==
  CASE cat.t = "primitive.DateTime" ->
         [t |-> "string", v |-> FormatRFC3339UTC(TimeAt(cat.v))]
    [] cat.t = "time.Time" ->
         [t |-> "string", v |-> FormatRFC3339UTC(cat.v)]
    [] cat.t = "map[string]interface {}" ->
         IF Has(cat.v, "$date") /\ cat.v["$date"].t = "string"
         THEN IF TimeParseOk(cat.v["$date"].v)
              THEN [t |-> "string", v |-> FormatRFC3339UTC(TimeParse(cat.v["$date"].v))]
              ELSE [t |-> "string", v |-> cat.v["$date"].v]
         ELSE ToJSON(cat)
    [] OTHER -> ToJSON(cat)

NormalizeUser(raw) ==
  LET keys == {"id"}
              \cup {k \in {"name", "email"} : Has(raw, k) /\ raw[k].t = "string"}
              \cup {k \in {"age"} : Has(raw, k) /\ raw[k].t \in {"int32", "int", "float64"}}
              \cup {k \in {"created_at"} : Has(raw, k)}
  IN  [k \in keys |->
         CASE k = "id" ->
                IF Has(raw, "_id") /\ raw["_id"].t = "primitive.ObjectID"
                THEN [t |-> "hexstring", v |-> Hex(raw["_id"].v)]
                ELSE [t |-> "hexstring", v |-> <<>>]
           [] k \in {"name", "email"} -> [t |-> "string", v |-> raw[k].v]
           [] k = "age" ->
                IF raw[k].t = "int" THEN [t |-> "number", v |-> raw[k].v]
                ELSE [t |-> "number", v |-> ToInt(raw[k].v)]
           [] k = "created_at" -> NormalizeCreatedAt(raw[k])]

(***************************************************************************)
(* The "users" collection: the stored documents in insertion order.  Each  *)
(* operator is one driver call as the server answers it when it answers.   *)
(***************************************************************************)
Matching(c, oid) == {i \in 1..Len(c) : c[i]["_id"] = [t |-> "objectId", v |-> oid]}

First(c, oid) == CHOOSE i \in Matching(c, oid) : \A j \in Matching(c, oid) : i <= j

RemoveAt(c, i) == [j \in 1..(Len(c) - 1) |-> IF j < i THEN c[j] ELSE c[j + 1]]

\* InsertOne: the unique index on _id rejects a second document with the same _id
InsertOneErr(c, doc) == Matching(c, doc["_id"].v) # {}

InsertOne(c, doc) == Append(c, doc)

\* DeleteOne({_id: oid}): removes the matching document, if any
DeleteOne(c, oid) == IF Matching(c, oid) = {} THEN c ELSE RemoveAt(c, First(c, oid))

\* a variant that never refuses an update
UpdateByIDErrNever(c, oid, set) == FALSE

\* UpdateByID(oid, {$set: set}) is refused when it would change the immutable _id
UpdateByIDErr(c, oid, set) ==
  /\ Matching(c, oid) # {}
  /\ Has(set, "_id")
  /\ set["_id"] # c[First(c, oid)]["_id"]

\* a variant that writes the body as the whole document (an update without $set)
ReplaceByID(c, oid, set) ==
  IF Matching(c, oid) = {} THEN c
  ELSE [c EXCEPT ![First(c, oid)] = Merge([k \in {"_id"} |-> @["_id"]], set)]

\* a variant that inserts the document when none matches (an update with upsert)
UpsertByID(c, oid, set) ==
  IF Matching(c, oid) = {}
  THEN Append(c, Merge(set, [k \in {"_id"} |-> [t |-> "objectId", v |-> oid]]))
  ELSE [c EXCEPT ![First(c, oid)] = Merge(@, set)]

\* UpdateByID(oid, {$set: set}): the supplied fields replace or extend the matching
\* document; without a match nothing is written (no upsert)
UpdateByID(c, oid, set) ==
  IF Matching(c, oid) = {} THEN c
  ELSE [c EXCEPT ![First(c, oid)] = Merge(@, set)]

(***************************************************************************)
(* Requests.                                                               *)
(***************************************************************************)
Str(s) == [t |-> "string", v |-> Plain(s)]

LegacyOid == <<1, 2, 0, 0, 0, 0, 0, 0, 0, 0, 0, 9>>

\* the identifiers a client puts in a create body: the sample document's and an older
\* document's
KnownOids == {NewObjectID(1), LegacyOid}

Upper(s) ==
  [i \in 1..Len(s) |->
     IF \E j \in 1..16 : HexDigits[j] = s[i]
     THEN UpperDigits[CHOOSE j \in 1..16 : HexDigits[j] = s[i]]
     ELSE s[i]]

InvalidPathIds ==
  { <<"n", "o", "t", "-", "a", "-", "v", "a", "l", "i", "d", "-", "i", "d">>,
    [Hex(NewObjectID(1)) EXCEPT ![24] = "g"] }

\* well-formed identifiers: the first two of this process (the second has no document
\* until one is created, and is written in upper case) and an older document's
ValidPathIds == {Hex(NewObjectID(1)), Upper(Hex(NewObjectID(2))), Hex(LegacyOid)}

\* the remainder of the path after /users/
PathIds == ValidPathIds \cup InvalidPathIds

NowValues == {1500}

Malformed == [valid |-> FALSE, m |-> EmptyMap]

Json(m) == [valid |-> TRUE, m |-> m]

\* POST /users bodies without an id
PlainPayloads ==
  { Json("name" :> Str("Ann") @@ "email" :> Str("a@x.com") @@ "age" :> [t |-> "number", v |-> Num(0, 31, 0)]),
    Json("name" :> Str("") @@ "age" :> [t |-> "number", v |-> Num(0, 0, 0)]),
    Json("age" :> [t |-> "number", v |-> Num(1, 0, 0)]
           @@ "created_at" :> [t |-> "string", v |-> Rfc(7, 120)]) }

\* POST /users bodies json.Decode rejects
BadPayloads ==
  { Malformed,
    Json("age" :> [t |-> "number", v |-> Num(0, 31, 5)]) }

\* POST /users bodies that carry an id
IdPayloads == {Json("id" :> [t |-> "hexstring", v |-> Hex(o)] @@ "name" :> Str("Eve")) : o \in KnownOids}

UpdateValue(k) ==
  CASE k = "name"       -> Str("Bob")
    [] k = "email"      -> Str("b@x.com")
    [] k = "age"        -> [t |-> "float64", v |-> Num(0, 32, 5)]
    [] k = "created_at" -> Str("hello")

UpdateSubsets ==
  {{}, {"age"}, {"name", "email", "created_at"}, {"name", "email", "age", "created_at"}}

\* PUT /users/{id} bodies: subsets of the fields, some with an id or an _id, and a
\* malformed one
UpdateBodies ==
  {Json([k \in S |-> UpdateValue(k)]) : S \in UpdateSubsets}
    \cup { Json("id" :> Str("zzz") @@ "age" :> UpdateValue("age")),
           Json("_id" :> Str("zzz") @@ "name" :> UpdateValue("name")),
           Malformed }

\* PUT /users/{id} requests: every body on a well-formed id, a JSON body and a malformed
\* one on an invalid id
UpdateRequests ==
  (ValidPathIds \X UpdateBodies)
    \cup (InvalidPathIds \X {Json([k \in {"age"} |-> UpdateValue(k)]), Malformed})

(***************************************************************************)
(* Responses.  `last` is the request served last and its answer: `down`    *)
(* says that the store was failing while it was served, `db` what became   *)
(* of its database call ("none": no call was made, "ok": the call          *)
(* returned, a "no documents" result included, "error": the call failed).  *)
(* `before` is the collection as that request found it.                    *)
(***************************************************************************)
Text(msg) == [kind |-> "text", val |-> msg]

IdObject(hex) == [kind |-> "object", val |-> [k \in {"id"} |-> [t |-> "hexstring", v |-> hex]]]

Answer(op, path, body, down, status, out, db) ==
  [op |-> op, path |-> path, body |-> body, down |-> down, status |-> status, out |-> out,
   db |-> db]

\* `var out []map[string]any` and one append per document: nil until the first append
ListSlice(c) ==
  [nil |-> Len(c) = 0, elems |-> [i \in 1..Len(c) |-> NormalizeUser(DecodeDoc(c[i]))]]

\* json.Encode of a slice: a nil slice is written as null
EncodeSlice(sl) ==
  IF sl.nil THEN [kind |-> "null", val |-> <<>>] ELSE [kind |-> "array", val |-> sl.elems]

(***************************************************************************)
(* The handlers.  `fail` is the environment making the handler's database  *)
(* call return an error (a stalled or unreachable server, the 10 s         *)
(* deadline).                                                              *)
(***************************************************************************)
\* the document createUser hands to InsertOne: created_at defaults to now
UserToInsert(payload, now) ==
  LET in == DecodeUser(payload)
  IN  IF in.CreatedAt.zero THEN [in EXCEPT !.CreatedAt = TimeAt(now)] ELSE in

\* InsertOne adds a generated _id to a document that has none
WithId(doc, n) ==
  IF Has(doc, "_id") THEN doc ELSE ("_id" :> [t |-> "objectId", v |-> NewObjectID(n)]) @@ doc

\* the bound on writes: every write call issued to the database is counted
Counted ==
  /\ writes < MaxWrites
  /\ writes' = writes + 1

createUser(payload, now, fail) ==
  /\ UNCHANGED <<deleted, connVars>>
  /\ before' = coll
  /\ IF UserDecodeErr(payload)
     THEN /\ last' = Answer("create", <<>>, payload, fail, 400, Text("invalid json body"), "none")
          /\ UNCHANGED <<coll, counter, writes, fresh>>
     ELSE LET enc == EncodeUser(UserToInsert(payload, now))
              gen == ~Has(enc, "_id")
              doc == WithId(enc, counter + 1)
              err == fail \/ InsertOneErr(coll, doc)
          IN  /\ Counted
              /\ counter' = IF gen THEN counter + 1 ELSE counter
              /\ coll' = IF err THEN coll ELSE InsertOne(coll, doc)
              /\ fresh' = IF ~err /\ ~Has(payload.m, "id")
                          THEN (doc["_id"].v :> payload.m) @@ fresh
                          ELSE fresh
              /\ last' = IF err
                         THEN Answer("create", <<>>, payload, fail, 500, Text("insert error"), "error")
                         ELSE Answer("create", <<>>, payload, fail, 201, IdObject(Hex(doc["_id"].v)), "ok")

listUsers(fail) ==
  /\ UNCHANGED <<coll, counter, writes, fresh, deleted, connVars>>
  /\ before' = coll
  /\ last' = IF fail
             THEN Answer("list", <<>>, Malformed, fail, 500, Text("find error"), "error")
             ELSE Answer("list", <<>>, Malformed, fail, 200, EncodeSlice(ListSlice(coll)), "ok")

getUser(path, fail) ==
  /\ UNCHANGED <<coll, counter, writes, fresh, deleted, connVars>>
  /\ before' = coll
  /\ last' =
       IF ObjectIDFromHexErr(path)
       THEN Answer("get", path, Malformed, fail, 400, Text("invalid id"), "none")
       ELSE LET oid == ObjectIDFromHex(path)
            IN  IF fail
                THEN Answer("get", path, Malformed, fail, 500, Text("find error"), "error")
                ELSE IF Matching(coll, oid) = {}
                THEN Answer("get", path, Malformed, fail, 404, Text("not found"), "ok")
                ELSE Answer("get", path, Malformed, fail, 200,
                            [kind |-> "object",
                             val |-> NormalizeUser(DecodeDoc(coll[First(coll, oid)]))],
                            "ok")

\* delete(body, "id")
StripId(m) == Without(m, "id")

updateUser(path, body, fail) ==
  /\ UNCHANGED <<counter, deleted, connVars>>
  /\ before' = coll
  /\ IF ObjectIDFromHexErr(path)
     THEN /\ last' = Answer("update", path, body, fail, 400, Text("invalid id"), "none")
          /\ UNCHANGED <<coll, writes, fresh>>
     ELSE IF ~body.valid
     THEN /\ last' = Answer("update", path, body, fail, 400, Text("invalid json body"), "none")
          /\ UNCHANGED <<coll, writes, fresh>>
     ELSE LET oid == ObjectIDFromHex(path)
              set == EncodeBody(StripId(body.m))
              err == fail \/ UpdateByIDErr(coll, oid, set)
          IN  /\ Counted
              /\ coll' = IF err THEN coll ELSE UpdateByID(coll, oid, set)
              /\ fresh' = Without(fresh, oid)
              /\ last' = IF err
                         THEN Answer("update", path, body, fail, 500, Text("update error"), "error")
                         ELSE Answer("update", path, body, fail, 200, IdObject(Hex(oid)), "ok")

deleteUser(path, fail) ==
  /\ UNCHANGED <<counter, connVars>>
  /\ before' = coll
  /\ IF ObjectIDFromHexErr(path)
     THEN /\ last' = Answer("delete", path, Malformed, fail, 400, Text("invalid id"), "none")
          /\ UNCHANGED <<coll, writes, fresh, deleted>>
     ELSE LET oid == ObjectIDFromHex(path)
          IN  /\ Counted
              /\ coll' = IF fail THEN coll ELSE DeleteOne(coll, oid)
              /\ fresh' = Without(fresh, oid)
              /\ deleted' = IF fail \/ Matching(coll, oid) = {} THEN deleted ELSE deleted \cup {oid}
              /\ last' = IF fail
                         THEN Answer("delete", path, Malformed, fail, 500, Text("delete error"), "error")
                         ELSE Answer("delete", path, Malformed, fail, 200, IdObject(Hex(oid)), "ok")

(***************************************************************************)
(* The collection when the router starts serving.  main runs               *)
(* createSampleData once per start: a successful InsertOne appends the     *)
(* sample document to whatever the database held, a failed one is logged   *)
(* and the server starts all the same.  The database held nothing, or a    *)
(* document of an older writer whose created_at is the nested              *)
(* {"$date": text} form, or that and the sample document of an earlier     *)
(* start.                                                                  *)
(***************************************************************************)
LegacyDoc ==
  "_id" :> [t |-> "objectId", v |-> LegacyOid]
    @@ "name" :> Str("Old")
    @@ "created_at" :> [t |-> "document", v |-> ("$date" :> [t |-> "string", v |-> Rfc(3, 0)])]

\* sampleDoc under the _id the driver generates for it
SampleDocWithId(oid) ==
  "_id" :> [t |-> "objectId", v |-> oid]
    @@ "name" :> Str("John Doe")
    @@ "email" :> Str("john.doe@example.com")
    @@ "age" :> [t |-> "int32", v |-> Num(0, 30, 0)]
    @@ "created_at" :> [t |-> "date", v |-> 60000]

\* the sample document this process inserts: the first _id it generates
SampleDoc == SampleDocWithId(NewObjectID(1))

\* the _id an earlier process generated for its sample document
EarlierOid == <<100, 171, 0, 0, 0, 0, 0, 0, 0, 0, 0, 1>>

EarlierSampleDoc == SampleDocWithId(EarlierOid)

\* what the database holds when the process starts
PriorContents == {<<>>, <<LegacyDoc>>, <<LegacyDoc, EarlierSampleDoc>>}

\* createSampleData: the collection after its InsertOne succeeded or failed
createSampleData(prior, fail) == IF fail THEN prior ELSE InsertOne(prior, SampleDoc)

InitApi ==
  /\ \E prior \in PriorContents, fail \in BOOLEAN : coll = createSampleData(prior, fail)
  /\ counter = 1
  /\ writes = 0
  /\ last = Answer("init", <<>>, Malformed, FALSE, 0, Text(""), "none")
  /\ before = coll
  /\ fresh = EmptyMap
  /\ deleted = {}

NextApi ==
  \/ \E p \in PlainPayloads \cup BadPayloads \cup IdPayloads, now \in NowValues, fail \in BOOLEAN :
       createUser(p, now, fail)
  \/ \E fail \in BOOLEAN : listUsers(fail)
  \/ \E path \in PathIds, fail \in BOOLEAN : getUser(path, fail)
  \/ \E req \in UpdateRequests, fail \in BOOLEAN : updateUser(req[1], req[2], fail)
  \/ \E path \in PathIds, fail \in BOOLEAN : deleteUser(path, fail)

(***************************************************************************)
(* Package db: the singleton.  `clients` are the driver clients opened so  *)
(* far with their state, `handles` the MongoClient values Connect has      *)
(* built (a *MongoClient is an index into them, 0 is nil),                 *)
(* `clientInstance` the package variable.  Connect and Disconnect take no  *)
(* lock and block inside the driver, so a call is a sequence of steps, one *)
(* per access to clientInstance or driver call, and the calls of different *)
(* goroutines interleave: `calls[g]` is where goroutine g is in its call   *)
(* (`at` is the source line it executes next) with the call's locals.      *)
(* `panicked` says that the process died of a nil dereference.             *)
(*                                                                         *)
(* History kept for the properties: `lastConn` is the call that returned   *)
(* in the last step (op "none" when that step returned nothing),           *)
(* `succeeded` the handles that Connect calls have returned without error  *)
(* since the last step of any Disconnect call, those calls left out during *)
(* which a Disconnect call took a step.  Of a call in flight, `known` is   *)
(* `succeeded` as the call found it, `quiet` that no Disconnect call has   *)
(* taken a step since the call began (`known` is emptied when one does),   *)
(* `alone` that no other goroutine has taken a step since, `inst` the      *)
(* singleton and `was` the state of the receiver's client when the call    *)
(* began.                                                                  *)
(***************************************************************************)
Goroutines == {1, 2}

Idle ==
  [at |-> "idle", uri |-> "", dbName |-> "", reg |-> 0, client |-> 0, h |-> 0,
   known |-> {}, quiet |-> TRUE, alone |-> TRUE, inst |-> 0, was |-> ""]

NoCall ==
  [op |-> "none", uri |-> "", dbName |-> "", arg |-> 0, ret |-> 0, err |-> FALSE,
   opened |-> FALSE, known |-> {}, alone |-> TRUE, inst |-> 0, was |-> ""]

\* what a call of goroutine g returns
ConnAnswer(g, op, ret, err) ==
  LET c == calls[g]
  IN  [op |-> op, uri |-> c.uri, dbName |-> c.dbName, arg |-> c.h, ret |-> ret, err |-> err,
       opened |-> c.client # 0 /\ op = "Connect", known |-> c.known, alone |-> c.alone,
       inst |-> c.inst, was |-> c.was]

\* the calls in flight after a step of goroutine g that leaves g's call as `mine`; a
\* step of a Disconnect call ends the period in which earlier results of Connect count
Step(g, mine, ofDisconnect) ==
  [q \in Goroutines |->
     IF q = g THEN mine
     ELSE IF calls[q].at = "idle" THEN calls[q]
     ELSE [calls[q] EXCEPT !.alone = FALSE,
                           !.quiet = IF ofDisconnect THEN FALSE ELSE @,
                           !.known = IF ofDisconnect THEN {} ELSE @]]

\* the successful results of Connect after goroutine g's call returned ret
Succeeded(g, ret) ==
  IF calls[g].quiet /\ ret # 0 THEN succeeded \cup {ret} ELSE succeeded

\* the early return of Connect
Cached(inst) == inst # 0

\* a read of clientInstance that follows a read or a write of it by the same goroutine
\* with no synchronisation in between: the value in memory, or the one still in a register
Reload(reg) == {clientInstance, reg}

\* mongo.go:23: if clientInstance != nil
ConnectCall(g, uri, dbName) ==
  /\ ~panicked /\ calls[g].at = "idle"
  /\ LET c == [Idle EXCEPT !.uri = uri, !.dbName = dbName, !.reg = clientInstance,
                           !.known = succeeded, !.inst = clientInstance]
     IN  calls' = Step(g, [c EXCEPT !.at = IF Cached(clientInstance) THEN "24" ELSE "35"], FALSE)
  /\ lastConn' = NoCall
  /\ UNCHANGED <<apiVars, clientInstance, clients, handles, panicked, succeeded>>

\* mongo.go:24: return clientInstance, nil
ConnectReturnCached(g) ==
  /\ ~panicked /\ calls[g].at = "24"
  /\ \E ret \in Reload(calls[g].reg) :
       /\ lastConn' = ConnAnswer(g, "Connect", ret, FALSE)
       /\ succeeded' = Succeeded(g, ret)
  /\ calls' = Step(g, Idle, FALSE)
  /\ UNCHANGED <<apiVars, clientInstance, clients, handles, panicked>>

\* mongo.go:35-38: mongo.Connect(ctx, clientOptions)
ConnectDial(g, connectFails) ==
  /\ ~panicked /\ calls[g].at = "35"
  /\ IF connectFails
     THEN /\ lastConn' = ConnAnswer(g, "Connect", 0, TRUE)
          /\ calls' = Step(g, Idle, FALSE)
          /\ UNCHANGED clients
     ELSE /\ Len(clients) < MaxClients
          /\ clients' = Append(clients, "connected")
          /\ lastConn' = NoCall
          /\ calls' = Step(g, [calls[g] EXCEPT !.at = "41", !.client = Len(clients')], FALSE)
  /\ UNCHANGED <<apiVars, clientInstance, handles, panicked, succeeded>>

\* mongo.go:41-44: client.Ping; on failure the opened client is left as it is
ConnectPing(g, pingFails) ==
  /\ ~panicked /\ calls[g].at = "41"
  /\ IF pingFails
     THEN /\ lastConn' = ConnAnswer(g, "Connect", 0, TRUE)
          /\ calls' = Step(g, Idle, FALSE)
     ELSE /\ lastConn' = NoCall
          /\ calls' = Step(g, [calls[g] EXCEPT !.at = "46"], FALSE)
  /\ UNCHANGED <<apiVars, clientInstance, clients, handles, panicked, succeeded>>

\* mongo.go:46-49: clientInstance = &MongoClient{Client: client, DB: client.Database(dbName)}
ConnectAssign(g) ==
  /\ ~panicked /\ calls[g].at = "46"
  /\ handles' = Append(handles, [Client |-> calls[g].client, DB |-> calls[g].dbName])
  /\ clientInstance' = Len(handles')
  /\ lastConn' = NoCall
  /\ calls' = Step(g, [calls[g] EXCEPT !.at = "52", !.reg = Len(handles')], FALSE)
  /\ UNCHANGED <<apiVars, clients, panicked, succeeded>>

\* mongo.go:52: return clientInstance, nil
ConnectReturn(g) ==
  /\ ~panicked /\ calls[g].at = "52"
  /\ \E ret \in Reload(calls[g].reg) :
       /\ lastConn' = ConnAnswer(g, "Connect", ret, FALSE)
       /\ succeeded' = Succeeded(g, ret)
  /\ calls' = Step(g, Idle, FALSE)
  /\ UNCHANGED <<apiVars, clientInstance, clients, handles, panicked>>

\* mongo.go:57: if mc.Client != nil, with h the receiver mc; a nil receiver (what a
\* failed Connect returns) makes mc.Client panic
DisconnectCall(g, h) ==
  /\ ~panicked /\ calls[g].at = "idle"
  /\ succeeded' = {}
  /\ UNCHANGED <<apiVars, clientInstance, clients, handles>>
  /\ IF h = 0
     THEN /\ panicked' = TRUE
          /\ lastConn' = NoCall
          /\ calls' = Step(g, Idle, TRUE)
     ELSE LET mc == handles[h]
              c  == [Idle EXCEPT !.h = h, !.client = mc.Client, !.inst = clientInstance,
                                 !.was = IF mc.Client = 0 THEN "" ELSE clients[mc.Client]]
          IN  /\ UNCHANGED panicked
              /\ IF mc.Client # 0
                 THEN /\ lastConn' = NoCall
                      /\ calls' = Step(g, [c EXCEPT !.at = "61"], TRUE)
                 ELSE /\ lastConn' = [NoCall EXCEPT !.op = "Disconnect", !.arg = h]
                      /\ calls' = Step(g, Idle, TRUE)

\* mc.Client.Disconnect(ctx): the driver refuses a client that is already disconnected
ClientDisconnectErr(state, driverFails) == state = "disconnected" \/ driverFails

\* mongo.go:61-64: err := mc.Client.Disconnect(ctx)
DisconnectDriver(g, driverFails) ==
  /\ ~panicked /\ calls[g].at = "61"
  /\ succeeded' = {}
  /\ IF ClientDisconnectErr(clients[calls[g].client], driverFails)
     THEN /\ lastConn' = ConnAnswer(g, "Disconnect", 0, TRUE)
          /\ calls' = Step(g, Idle, TRUE)
          /\ UNCHANGED clients
     ELSE /\ clients' = [clients EXCEPT ![calls[g].client] = "disconnected"]
          /\ lastConn' = NoCall
          /\ calls' = Step(g, [calls[g] EXCEPT !.at = "66"], TRUE)
  /\ UNCHANGED <<apiVars, clientInstance, handles, panicked>>

\* mongo.go:66-69: clientInstance = nil; return nil
DisconnectClear(g) ==
  /\ ~panicked /\ calls[g].at = "66"
  /\ succeeded' = {}
  /\ clientInstance' = 0
  /\ lastConn' = ConnAnswer(g, "Disconnect", 0, FALSE)
  /\ calls' = Step(g, Idle, TRUE)
  /\ UNCHANGED <<apiVars, clients, handles, panicked>>

Uris == {"mongodb://localhost:27017", "mongodb://other:27017"}

DbNames == {"test_database", "other_database"}

\* package db before the first call
InitConn ==
  /\ clientInstance = 0
  /\ clients = <<>>
  /\ handles = <<>>
  /\ calls = [g \in Goroutines |-> Idle]
  /\ panicked = FALSE
  /\ lastConn = NoCall
  /\ succeeded = {}

\* package db while the router serves: main's one Connect call has succeeded (on a
\* failure main exits), here with the default database name
ServingConn ==
  /\ clientInstance = 1
  /\ clients = <<"connected">>
  /\ handles = <<[Client |-> 1, DB |-> "test_database"]>>
  /\ calls = [g \in Goroutines |-> Idle]
  /\ panicked = FALSE
  /\ lastConn = NoCall
  /\ succeeded = {1}

NextConn ==
  \/ \E g \in Goroutines, uri \in Uris, dbName \in DbNames : ConnectCall(g, uri, dbName)
  \/ \E g \in Goroutines : ConnectReturnCached(g)
  \/ \E g \in Goroutines, connectFails \in BOOLEAN : ConnectDial(g, connectFails)
  \/ \E g \in Goroutines, pingFails \in BOOLEAN : ConnectPing(g, pingFails)
  \/ \E g \in Goroutines : ConnectAssign(g)
  \/ \E g \in Goroutines : ConnectReturn(g)
  \/ \E g \in Goroutines, h \in 0..Len(handles) : DisconnectCall(g, h)
  \/ \E g \in Goroutines, driverFails \in BOOLEAN : DisconnectDriver(g, driverFails)
  \/ \E g \in Goroutines : DisconnectClear(g)

(***************************************************************************)
(* Specifications: the API as the router serves it, and package db under   *)
(* arbitrary callers.                                                      *)
(***************************************************************************)
Init == InitApi /\ ServingConn

Next == NextApi

Spec == Init /\ [][Next]_vars

ConnInit ==
  /\ InitConn
  /\ coll = <<>>
  /\ counter = 1
  /\ writes = 0
  /\ last = Answer("init", <<>>, Malformed, FALSE, 0, Text(""), "none")
  /\ before = coll
  /\ fresh = EmptyMap
  /\ deleted = {}

ConnSpec == ConnInit /\ [][NextConn]_vars

(***************************************************************************)
(* Properties.  A property that speaks of the answer to a request whose    *)
(* database call the contract's 500 row covers is stated for the requests  *)
(* whose database call did not fail (last.db # "error").                   *)
(***************************************************************************)
\* the identifier the last request named in its path
PathOid == ObjectIDFromHex(last.path)

WellFormedPath == last.path \notin InvalidPathIds

UserKeys == {"name", "email", "age"}

IsRfc3339Utc(j) == j.t = "string" /\ j.v.rfc /\ j.v.off = 0

\* C1: round trip.  A create with a payload that has no id answers 201 with an id; a get
\* on that id, with no update or delete of it in between, answers 200 with the name,
\* email and age the payload supplied; and the id identifies exactly one document.
CreateGetRoundTrip ==
  /\ (last.op = "create" /\ last.body \in PlainPayloads /\ last.db # "error") =>
        /\ last.status = 201
        /\ last.out.kind = "object"
        /\ Matching(coll, ObjectIDFromHex(last.out.val["id"].v)) # {}
  /\ (last.op = "get" /\ WellFormedPath /\ PathOid \in DOMAIN fresh /\ last.db # "error") =>
        /\ last.status = 200
        /\ \A k \in UserKeys \cap DOMAIN fresh[PathOid] :
             Has(last.out.val, k) /\ last.out.val[k] = fresh[PathOid][k]
  /\ \A oid \in DOMAIN fresh : Cardinality(Matching(coll, oid)) = 1

\* C2: partial update.  An update with a well-formed id and a JSON body answers 200; of
\* the matching document every field the body does not name keeps its value and no field
\* appears that the body does not name; every other document is unchanged; with an empty
\* body the collection is exactly as before.
PartialUpdateKeepsTheRest ==
  (last.op = "update" /\ WellFormedPath /\ last.body.valid /\ last.db # "error") =>
     /\ last.status = 200
     /\ Len(coll) = Len(before)
     /\ LET S == DOMAIN last.body.m \ {"id"}
        IN  \A j \in 1..Len(before) :
              IF Matching(before, PathOid) # {} /\ j = First(before, PathOid)
              THEN /\ \A k \in DOMAIN before[j] \ S : Has(coll[j], k) /\ coll[j][k] = before[j][k]
                   /\ DOMAIN coll[j] \subseteq DOMAIN before[j] \cup S
                   /\ S = {} => coll[j] = before[j]
              ELSE coll[j] = before[j]

\* C2 witness: an update answered 200 that changed an existing document which has
\* fields the body did not name
PartialUpdateHappened ==
  /\ last.op = "update" /\ last.status = 200
  /\ Matching(before, PathOid) # {}
  /\ coll # before
  /\ DOMAIN before[First(before, PathOid)] \ (DOMAIN last.body.m \cup {"_id"}) # {}

\* C3: once a delete has removed the document of an id and answered 200, every later
\* get on that id answers 404.
DeletedIdStaysGone ==
  (last.op = "get" /\ WellFormedPath /\ PathOid \in deleted /\ last.db # "error") =>
     last.status = 404

\* C4: a get, update or delete whose path id is not a valid hex identifier answers 400,
\* makes no database call and leaves the collection unchanged, whether or not the store
\* is failing.
InvalidIdAnswers400 ==
  (last.op \in {"get", "update", "delete"} /\ last.path \in InvalidPathIds) =>
     /\ last.status = 400
     /\ last.db = "none"
     /\ coll = before

\* C4 witness: an update with an invalid id, served while the store is failing
InvalidIdWhileStoreDown ==
  /\ last.op = "update" /\ last.path \in InvalidPathIds /\ last.body.valid
  /\ last.down /\ last.status = 400

\* C5: whenever list or get returns a User whose stored document has a created_at, the
\* created_at of the response is a valid RFC3339 UTC string.
CreatedAtIsRfc3339Utc ==
  /\ (last.op = "get" /\ last.status = 200) =>
        (Has(coll[First(coll, PathOid)], "created_at") =>
           /\ Has(last.out.val, "created_at")
           /\ IsRfc3339Utc(last.out.val["created_at"]))
  /\ (last.op = "list" /\ last.status = 200 /\ last.out.kind = "array") =>
        \A j \in 1..Len(coll) :
          Has(coll[j], "created_at") =>
            /\ Has(last.out.val[j], "created_at")
            /\ IsRfc3339Utc(last.out.val[j]["created_at"])

\* C8: the id is immutable.  No update, whatever its body, changes the _id of any
\* stored document, and a get that finds a document returns the id it was asked for.
IdIsImmutable ==
  /\ last.op = "update" =>
        /\ Len(coll) = Len(before)
        /\ \A j \in 1..Len(before) : Has(coll[j], "_id") /\ coll[j]["_id"] = before[j]["_id"]
  /\ (last.op = "get" /\ last.status = 200) =>
        last.out.val["id"] = [t |-> "hexstring", v |-> Hex(PathOid)]

\* C8 witness: an update whose body carries an id changed an existing document
UpdateWithIdHappened ==
  /\ last.op = "update" /\ last.status = 200
  /\ Has(last.body.m, "id")
  /\ Matching(before, PathOid) # {}
  /\ coll # before

\* C9: a list that meets no query error answers 200 with a JSON array that holds one
\* normalized User per stored document, in every state of the collection, and leaves the
\* collection unchanged.
ListAnswersArray ==
  (last.op = "list" /\ last.db # "error") =>
     /\ last.status = 200
     /\ last.out.kind = "array"
     /\ Len(last.out.val) = Len(coll)
     /\ coll = before

\* C10: an update or delete with a well-formed id that matches no document answers 200
\* with that id, creates nothing and leaves the collection unchanged; a get of such an id
\* answers 404.
MissingIdAnswers200 ==
  /\ ( /\ last.op \in {"update", "delete"}
       /\ WellFormedPath
       /\ last.op = "update" => last.body.valid
       /\ Matching(before, PathOid) = {}
       /\ last.db # "error" ) =>
        /\ last.status = 200
        /\ last.out = IdObject(Hex(PathOid))
        /\ coll = before
  /\ (last.op = "get" /\ WellFormedPath /\ Matching(before, PathOid) = {} /\ last.db # "error") =>
        last.status = 404

\* C10 witness: an update that names fields, for an id no document has, answered 200
UpdateOfMissingIdHappened ==
  /\ last.op = "update" /\ last.status = 200
  /\ Matching(before, PathOid) = {}
  /\ DOMAIN last.body.m # {}

\* the driver client behind the handle the last Disconnect was called on
ArgClient == handles[lastConn.arg].Client

\* C6: Connect is idempotent.  A Connect call that begins after Connect calls have
\* succeeded, with no step of a Disconnect call since, returns without error the one
\* connection all of them returned and opens no client; a Connect call that fails
\* returns nil and, when no other goroutine ran meanwhile, leaves the singleton unset.
ConnectIsIdempotent ==
  /\ (lastConn.op = "Connect" /\ lastConn.known # {}) =>
        /\ ~lastConn.err
        /\ lastConn.known = {lastConn.ret}
        /\ ~lastConn.opened
  /\ (lastConn.op = "Connect" /\ lastConn.err) =>
        /\ lastConn.ret = 0
        /\ lastConn.alone => clientInstance = 0

\* C7: Disconnect on an open connection closes it and clears the singleton; Disconnect on
\* a connection that is already closed returns no error and, when no other goroutine ran
\* meanwhile, changes nothing; a Connect call that begins with the singleton cleared and
\* succeeds has opened a new connection.
DisconnectIsIdempotent ==
  /\ (lastConn.op = "Disconnect" /\ lastConn.was = "connected" /\ ~lastConn.err) =>
        /\ clients[ArgClient] = "disconnected"
        /\ clientInstance = 0
  /\ (lastConn.op = "Disconnect" /\ lastConn.was = "disconnected") =>
        /\ ~lastConn.err
        /\ lastConn.alone => clientInstance = lastConn.inst
  /\ (lastConn.op = "Connect" /\ lastConn.inst = 0 /\ ~lastConn.err /\ lastConn.alone) =>
        /\ lastConn.opened
        /\ lastConn.ret # 0
        /\ clients[handles[lastConn.ret].Client] = "connected"

====
